---- MODULE Spec2Model ----
(***************************************************************************)
(* Curation-and-summarization pipeline of newsletter_agent.                *)
(*                                                                         *)
(* Strings are sequences of one-character strings.  Relevance scores and   *)
(* the relevance threshold are counted in hundredths (0.7 is 70).          *)
(***************************************************************************)
EXTENDS Integers, Sequences, FiniteSets, TLC

\* ------------------------------------------------------------------ bounds
\* longest batch handed to CurateNewsUseCase.execute
MaxBatch == 2

\* ------------------------------------------------------- program constants
\* news.content.length > 300 starts summary generation
ContentLengthTrigger == 300

\* z.coerce.number().min(0).max(1).default(0.7), in hundredths
DefaultRelevanceThreshold == 70

\* "Para conteudos > 200 caracteres, gera resumo" of the README
DocumentedSummaryTrigger == 200

\* the literal 0.7 of use-cases/curateNews.ts, in hundredths
FixedThreshold == 70

\* "SUMMARY_MAX_LENGTH: Tamanho maximo do resumo gerado (padrao: 180)" of the
\* README
DocumentedSummaryMaxLength == 180

\* An optional number is <<>> when it is missing (an environment variable
\* that is not set, JavaScript undefined) and <<n>> when it is the number n.
Undefined == <<>>

Num(n) == <<n>>

\* ------------------------------------------------------------------ strings
Rep(c, n) == [k \in 1..n |-> c]

Whitespace == {" ", "\n", "\t"}

Ellipsis == <<".", ".", ".">>

\* String.prototype.trim
RECURSIVE trimStart(_)
trimStart(s) ==
  IF s = <<>> THEN <<>>
  ELSE IF Head(s) \in Whitespace THEN trimStart(Tail(s)) ELSE s

RECURSIVE trimEnd(_)
trimEnd(s) ==
  IF s = <<>> THEN <<>>
  ELSE IF s[Len(s)] \in Whitespace THEN trimEnd(SubSeq(s, 1, Len(s) - 1)) ELSE s

trim(s) == trimEnd(trimStart(s))

\* an index argument of String.prototype.substring: NaN and negatives are 0,
\* anything beyond the length is the length
clampIndex(s, n) ==
  IF n = Undefined THEN 0
  ELSE IF n[1] < 0 THEN 0
  ELSE IF n[1] > Len(s) THEN Len(s) ELSE n[1]

\* String.prototype.substring(start, end): the arguments are clamped and
\* swapped when start > end
substring(s, start, end) ==
  LET a == clampIndex(s, start)
      b == clampIndex(s, end)
      lo == IF a <= b THEN a ELSE b
      hi == IF a <= b THEN b ELSE a
  IN SubSeq(s, lo + 1, hi)

\* a > b and a <= b of JavaScript numbers, where b may be undefined (NaN
\* after conversion): every comparison with NaN is false
jsGreaterOrEqual(a, b) == b # Undefined /\ a >= b[1]
jsGreater(a, b) == b # Undefined /\ a > b[1]
jsLessEq(a, b) == b # Undefined /\ a <= b[1]

\* maxLength - 3, NaN when maxLength is undefined
minus3(n) == IF n = Undefined THEN Undefined ELSE Num(n[1] - 3)

\* ---------------------------------------------------------------- the input
\* RELEVANCE_SCORE_THRESHOLD and SUMMARY_MAX_LENGTH of process.env
ProcessEnvs ==
  [RELEVANCE_SCORE_THRESHOLD : {Undefined, Num(50)},
   SUMMARY_MAX_LENGTH : {Undefined, Num(2), Num(5)}]

\* the texts the generation capability answers with
LlmTexts ==
  { <<>>,
    <<" ", " ">>,
    <<" ", "a", "b", "\n">>,
    <<"a", "b", "c", "d", "e">>,
    <<"a", "b", "c", "d", "e", "f", "g">>,
    Rep("b", DocumentedSummaryMaxLength + 1) }

ShorterTexts ==
  { <<" ">>,
    <<"x", "y">>,
    <<" ", "v", "w", "x", "y", "z", " ">>,
    <<"u", "v", "w", "x", "y", "z">> }

\* the messages of the errors the generation capability throws
LlmErrors == { "Gemini API error: quota" }

title(p) == <<"n", ToString(p)>>

\* the items the batches are made of, as (score, language, content length):
\* scores below, at and above the thresholds, the two accepted languages and
\* other spellings, contents below, at and above the trigger
ItemKinds ==
  { <<70, "EN", 301>>, <<50, "ptBR", 301>>, <<40, "EN", 301>>,
    <<70, "en", 301>>, <<40, "PTBR", 301>>,
    <<70, "ptBR", 300>>, <<50, "EN", 201>>, <<70, "PTBR", 300>>,
    <<40, "FR", 201>> }

\* entities/news_entity News
mkNews(p, kind) ==
  [ title |-> title(p),
    content |-> Rep("a", kind[3]),
    source |-> <<"s", ToString(p)>>,
    categories |-> <<"tech", ToString(p)>>,
    relevanceScore |-> kind[1],
    language |-> kind[2] ]

Batches ==
  UNION { { [p \in 1..n |-> mkNews(p, f[p])] : f \in [1..n -> ItemKinds] }
          : n \in 0..MaxBatch }

\* --------------------------------------------------------------- the state
VARIABLES
  processEnv,      \* process.env as the program was started with
  env,             \* the parsed environment
  newsArray,       \* the argument of CurateNewsUseCase.execute
  idx,             \* number of items the for loop has finished
  pc,              \* where execute stands
  approvedNews,
  rejectedNews,
  trimmedSummary,  \* the first answer, trimmed (local of summary execute)
  summaryResult,   \* what GenerateSummaryUseCase.execute returned
  llmCalls,        \* the prompts generateContent has been called with
  llmResponse,     \* how the last generateContent promise settled
  result,          \* the CurationResult returned
  llmSettled,      \* number of generateContent promises that have settled
  llmMemo,         \* the answers a deterministic capability has given
  run,             \* which invocation of execute is running
  firstReport,     \* the CurationResult of the first invocation
  jsonFile,        \* the parsed content of the source file
  extracted,       \* what validateAndExtractNews returned or threw
  useCase,         \* the load use case class that is executing
  loadPc,          \* where execute of the load use case stands
  isAvailable,     \* how isSourceAvailable settled
  loadNewsCalls,   \* number of calls of newsDataRepository.loadNews
  loaded,          \* how loadNews settled
  errors,          \* the errors list of LoadNewsFromJsonUseCase.execute
  loadResult,      \* what execute of the load use case returned
  newsTable,       \* the committed rows of table news
  categoriesTable, \* the committed rows of table categories
  newsCategories,  \* the committed rows of table news_categories
  sequences,       \* the next id of the serial columns
  txn,             \* the insertNews call of each pool client
  categoryCalls,   \* number of insertCategory calls made
  categoryReturned, \* what the last insertCategory call returned
  appPc,           \* where NewsletterApp.run stands
  appLoad,         \* loadResult of run
  appCuration,     \* curationResult of run
  insertIdx,       \* number of items insertMultipleNews has finished
  insertCalls,     \* the items insertNews has been called with
  insertResults,   \* results of insertMultipleNews
  poolEnds         \* number of calls of dbRepository.close

vars == <<processEnv, env, newsArray, idx, pc, approvedNews, rejectedNews,
          trimmedSummary, summaryResult, llmCalls, llmResponse, result,
          llmSettled, llmMemo, run, firstReport, jsonFile, extracted,
          useCase, loadPc, isAvailable, loadNewsCalls, loaded, errors,
          loadResult, newsTable, categoriesTable, newsCategories, sequences,
          txn, categoryCalls, categoryReturned, appPc, appLoad, appCuration,
          insertIdx, insertCalls, insertResults, poolEnds>>

\* the state of the deterministic capability and of the repeated invocation
stubVars == <<llmMemo, run, firstReport>>

\* the state of CurateNewsUseCase.execute and of the summary use case
curationVars ==
  <<processEnv, env, newsArray, idx, pc, approvedNews, rejectedNews,
    trimmedSummary, summaryResult, llmCalls, llmResponse, result,
    llmSettled, llmMemo, run, firstReport>>

\* the state of JsonNewsDataRepository.validateAndExtractNews
jsonVars == <<jsonFile, extracted>>

\* the state of execute of the load use cases
loadVars ==
  <<useCase, loadPc, isAvailable, loadNewsCalls, loaded, errors, loadResult>>

\* the database and the calls of DBRepository in progress
dbVars ==
  <<newsTable, categoriesTable, newsCategories, sequences, txn, categoryCalls,
    categoryReturned>>

\* the state of NewsletterApp.run
appVars ==
  <<appPc, appLoad, appCuration, insertIdx, insertCalls, insertResults,
    poolEnds>>

\* the state of the program outside the two use cases
outsideCuration == <<jsonVars, loadVars, dbVars, appVars>>

NoResult == [none |-> TRUE]

\* --------------------------------------------------------------- env/index
envSchema(pe) ==
  [ RELEVANCE_SCORE_THRESHOLD |->
      IF pe.RELEVANCE_SCORE_THRESHOLD = Undefined
      THEN DefaultRelevanceThreshold
      ELSE pe.RELEVANCE_SCORE_THRESHOLD[1],
    \* the schema names no SUMMARY_MAX_LENGTH and gives it no default
    SUMMARY_MAX_LENGTH |-> pe.SUMMARY_MAX_LENGTH ]

\* ------------------------------------------------------- CurateNewsUseCase
scoreReason(score, threshold) ==
  <<"Score insuficiente (", ToString(score), " < ", ToString(threshold), ")">>

languageReason(language) == <<"Idioma nao suportado (", language, ")">>

\* evaluateNews of use-cases/curateNews.ts: the threshold is the literal 0.7
evaluateNewsFixed(news) ==
  (IF news.relevanceScore < FixedThreshold
   THEN <<scoreReason(news.relevanceScore, FixedThreshold)>> ELSE <<>>)
  \o
  (IF news.language # "ptBR" /\ news.language # "EN"
   THEN <<languageReason(news.language)>> ELSE <<>>)

evaluateNewsElseIf(news, e) ==
  IF news.relevanceScore < e.RELEVANCE_SCORE_THRESHOLD
  THEN <<scoreReason(news.relevanceScore, e.RELEVANCE_SCORE_THRESHOLD)>>
  ELSE IF news.language # "ptBR" /\ news.language # "EN"
       THEN <<languageReason(news.language)>> ELSE <<>>

\* evaluateNews of the summarizing use case: the threshold is env's
evaluateNews(news, e) ==
  (IF news.relevanceScore < e.RELEVANCE_SCORE_THRESHOLD
   THEN <<scoreReason(news.relevanceScore, e.RELEVANCE_SCORE_THRESHOLD)>>
   ELSE <<>>)
  \o
  (IF news.language # "ptBR" /\ news.language # "EN"
   THEN <<languageReason(news.language)>> ELSE <<>>)

needsSummaryFrom300(news) == Len(news.content) >= ContentLengthTrigger

\* news.content.length > 300
needsSummary(news) == Len(news.content) > ContentLengthTrigger

startsSummaryUnfiltered(news, rejectionReasons) == needsSummary(news)

\* the branch of the loop body that calls summaryUseCase.execute
startsSummary(news, rejectionReasons) ==
  Len(rejectionReasons) = 0 /\ needsSummary(news)

unshift(list, x) == <<x>> \o list

\* Array.prototype.push
push(list, x) == Append(list, x)

\* --------------------------------------------------- GenerateSummaryUseCase
createSummaryPrompt(news, e) ==
  [ kind |-> "summary",
    maxLength |-> e.SUMMARY_MAX_LENGTH,
    title |-> news.title,
    content |-> news.content ]

\* the prompt generateShorterSummary builds
shorterPrompt(news, originalSummary, e) ==
  [ kind |-> "shorter",
    maxLength |-> e.SUMMARY_MAX_LENGTH,
    title |-> news.title,
    content |-> originalSummary ]

createResult(news, summary, success) ==
  [ summary |-> summary,
    originalNews |-> news,
    success |-> success,
    metadata |->
      [ originalLength |-> Len(news.content),
        summaryLength |-> Len(summary),
        compressionRatio |->
          IF Len(news.content) > 0
          THEN <<Len(summary), Len(news.content)>> ELSE <<0, 1>> ] ]

failureResultAsSuccess(news, errorMessage) == createResult(news, <<>>, TRUE)

\* the object the catch block of execute returns
failureResult(news, errorMessage) ==
  [ summary |-> <<>>,
    originalNews |-> news,
    success |-> FALSE,
    error |-> errorMessage,
    metadata |->
      [ originalLength |-> Len(news.content),
        summaryLength |-> 0,
        compressionRatio |-> <<0, 1>> ] ]

\* originalSummary.substring(0, maxLength - 3) + '...'
truncated(originalSummary, e) ==
  substring(originalSummary, Num(0), minus3(e.SUMMARY_MAX_LENGTH)) \o Ellipsis

finalSummaryUnchecked(shorterSummary, trimmed, e) == shorterSummary

\* shorterSummary.length <= maxLength ? shorterSummary : truncation of the
\* first answer
finalSummary(shorterSummary, trimmed, e) ==
  IF jsLessEq(Len(shorterSummary), e.SUMMARY_MAX_LENGTH)
  THEN shorterSummary
  ELSE truncated(trimmed, e)

processedNewsIgnoreSuccess(news, sr) == [news EXCEPT !.content = sr.summary]

processedNewsKeepContent(news, sr) ==
  IF sr.success
  THEN [ title |-> news.title, content |-> news.content,
         source |-> news.source, categories |-> news.categories,
         relevanceScore |-> news.relevanceScore, language |-> news.language,
         summary |-> sr.summary ]
  ELSE news

\* processedNews of the loop body, once summaryUseCase.execute has returned
processedNews(news, sr) ==
  IF sr.success THEN [news EXCEPT !.content = sr.summary] ELSE news

curationResultCountApproved(input, approved, rejected) ==
  [ approvedNews |-> approved,
    rejectedNews |-> rejected,
    totalProcessed |-> Len(approved),
    totalApproved |-> Len(approved),
    totalRejected |-> Len(rejected) ]

curationResult(input, approved, rejected) ==
  [ approvedNews |-> approved,
    rejectedNews |-> rejected,
    totalProcessed |-> Len(input),
    totalApproved |-> Len(approved),
    totalRejected |-> Len(rejected) ]

\* no curation is running
CurationIdle ==
  /\ processEnv = [RELEVANCE_SCORE_THRESHOLD |-> Undefined,
                   SUMMARY_MAX_LENGTH |-> Undefined]
  /\ env = envSchema(processEnv)
  /\ newsArray = <<>>
  /\ idx = 0
  /\ pc = "idle"
  /\ approvedNews = <<>>
  /\ rejectedNews = <<>>
  /\ trimmedSummary = <<>>
  /\ summaryResult = NoResult
  /\ llmCalls = <<>>
  /\ llmResponse = NoResult
  /\ result = NoResult
  /\ llmSettled = 0
  /\ llmMemo = {}
  /\ run = 1
  /\ firstReport = NoResult

\* nothing has been read from a source file
JsonIdle ==
  /\ jsonFile = [root |-> "object", news |-> <<>>]
  /\ extracted = NoResult

\* no load use case is executing
LoadIdle ==
  /\ useCase = "LoadNewsFromSourceUseCase"
  /\ loadPc = "idle"
  /\ isAvailable = "pending"
  /\ loadNewsCalls = 0
  /\ loaded = NoResult
  /\ errors = <<>>
  /\ loadResult = NoResult

\* an empty database and no call of DBRepository
DbIdle ==
  /\ newsTable = {}
  /\ categoriesTable = {}
  /\ newsCategories = {}
  /\ sequences = [news |-> 1, categories |-> 1]
  /\ txn = <<>>
  /\ categoryCalls = 0
  /\ categoryReturned = NoResult

\* the application is not running
AppIdle ==
  /\ appPc = "idle"
  /\ appLoad = NoResult
  /\ appCuration = NoResult
  /\ insertIdx = 0
  /\ insertCalls = <<>>
  /\ insertResults = <<>>
  /\ poolEnds = 0

\* ------------------------------------------------------------------- Init
Init ==
  /\ processEnv \in ProcessEnvs
  /\ env = envSchema(processEnv)
  /\ newsArray \in Batches
  /\ idx = 0
  /\ pc = "loop"
  /\ approvedNews = <<>>
  /\ rejectedNews = <<>>
  /\ trimmedSummary = <<>>
  /\ summaryResult = NoResult
  /\ llmCalls = <<>>
  /\ llmResponse = NoResult
  /\ result = NoResult
  /\ llmSettled = 0
  /\ llmMemo = {}
  /\ run = 1
  /\ firstReport = NoResult
  /\ JsonIdle
  /\ LoadIdle
  /\ DbIdle
  /\ AppIdle

\* the item of the running loop iteration
current == newsArray[idx + 1]

\* ------------------------------------------ actions of the summarizing run
\* one iteration for an item with rejection reasons
CurateReject ==
  /\ pc = "loop" /\ idx < Len(newsArray)
  /\ LET rejectionReasons == evaluateNews(current, env) IN
       /\ Len(rejectionReasons) # 0
       /\ rejectedNews' = push(rejectedNews,
            [news |-> current, reasons |-> rejectionReasons])
  /\ idx' = idx + 1
  /\ UNCHANGED <<processEnv, env, newsArray, pc, approvedNews, trimmedSummary,
                 summaryResult, llmCalls, llmResponse, result, llmSettled>>
  /\ UNCHANGED stubVars
  /\ UNCHANGED outsideCuration

\* one iteration for an approved item that needs no summary
CurateApprove ==
  /\ pc = "loop" /\ idx < Len(newsArray)
  /\ LET rejectionReasons == evaluateNews(current, env) IN
       /\ Len(rejectionReasons) = 0
       /\ ~startsSummary(current, rejectionReasons)
  /\ approvedNews' = push(approvedNews, current)
  /\ idx' = idx + 1
  /\ UNCHANGED <<processEnv, env, newsArray, pc, rejectedNews, trimmedSummary,
                 summaryResult, llmCalls, llmResponse, result, llmSettled>>
  /\ UNCHANGED stubVars
  /\ UNCHANGED outsideCuration

CurateSummarizeNoAwait ==
  /\ pc = "loop" /\ idx < Len(newsArray)
  /\ startsSummary(current, evaluateNews(current, env))
  /\ llmCalls' = Append(llmCalls, createSummaryPrompt(current, env))
  /\ approvedNews' = push(approvedNews, current)
  /\ idx' = idx + 1
  /\ UNCHANGED <<processEnv, env, newsArray, pc, rejectedNews, trimmedSummary,
                 summaryResult, llmResponse, result, llmSettled>>
  /\ UNCHANGED stubVars
  /\ UNCHANGED outsideCuration

\* an approved item with long content: summaryUseCase.execute builds the
\* prompt and calls generateContent
CurateSummarize ==
  /\ pc = "loop" /\ idx < Len(newsArray)
  /\ startsSummary(current, evaluateNews(current, env))
  /\ llmCalls' = Append(llmCalls, createSummaryPrompt(current, env))
  /\ pc' = "firstCall"
  /\ UNCHANGED <<processEnv, env, newsArray, idx, approvedNews, rejectedNews,
                 trimmedSummary, summaryResult, llmResponse, result,
                 llmSettled>>
  /\ UNCHANGED stubVars
  /\ UNCHANGED outsideCuration

\* execute of the summary use case goes on after the first generateContent
\* call has answered with text
firstCallReturns(text) ==
  /\ pc = "firstCall"
  /\ LET trimmed == trim(text) IN
       /\ llmResponse' = [kind |-> "summary", ok |-> TRUE, text |-> text]
       /\ trimmedSummary' = trimmed
       /\ IF jsGreater(Len(trimmed), env.SUMMARY_MAX_LENGTH)
          THEN /\ llmCalls' = Append(llmCalls, shorterPrompt(current, trimmed, env))
               /\ pc' = "correctiveCall"
               /\ UNCHANGED summaryResult
          ELSE /\ summaryResult' = createResult(current, trimmed, TRUE)
               /\ pc' = "summaryReturned"
               /\ UNCHANGED llmCalls
  /\ llmSettled' = llmSettled + 1
  /\ UNCHANGED <<processEnv, env, newsArray, idx, approvedNews, rejectedNews,
                 result>>

\* the first generateContent call has thrown msg: the catch block of execute
firstCallThrows(msg) ==
  /\ pc = "firstCall"
  /\ llmResponse' = [kind |-> "summary", ok |-> FALSE, message |-> msg]
  /\ summaryResult' = failureResult(current, msg)
  /\ pc' = "summaryReturned"
  /\ llmSettled' = llmSettled + 1
  /\ UNCHANGED <<processEnv, env, newsArray, idx, approvedNews, rejectedNews,
                 trimmedSummary, llmCalls, result>>

\* the corrective generateContent call has answered with text
correctiveCallReturns(text) ==
  /\ pc = "correctiveCall"
  /\ llmResponse' = [kind |-> "shorter", ok |-> TRUE, text |-> text]
  /\ summaryResult' =
       createResult(current, finalSummary(trim(text), trimmedSummary, env), TRUE)
  /\ pc' = "summaryReturned"
  /\ llmSettled' = llmSettled + 1
  /\ UNCHANGED <<processEnv, env, newsArray, idx, approvedNews, rejectedNews,
                 trimmedSummary, llmCalls, result>>

correctiveCallThrowsUncaught(msg) ==
  /\ pc = "correctiveCall"
  /\ llmResponse' = [kind |-> "shorter", ok |-> FALSE, message |-> msg]
  /\ summaryResult' = failureResult(current, msg)
  /\ pc' = "summaryReturned"
  /\ llmSettled' = llmSettled + 1
  /\ UNCHANGED <<processEnv, env, newsArray, idx, approvedNews, rejectedNews,
                 trimmedSummary, llmCalls, result>>

\* the corrective generateContent call has thrown msg: generateShorterSummary
\* returns the truncated first answer
correctiveCallThrows(msg) ==
  /\ pc = "correctiveCall"
  /\ llmResponse' = [kind |-> "shorter", ok |-> FALSE, message |-> msg]
  /\ summaryResult' =
       createResult(current,
         finalSummary(truncated(trimmedSummary, env), trimmedSummary, env),
         TRUE)
  /\ pc' = "summaryReturned"
  /\ llmSettled' = llmSettled + 1
  /\ UNCHANGED <<processEnv, env, newsArray, idx, approvedNews, rejectedNews,
                 trimmedSummary, llmCalls, result>>

\* the first generateContent call answers with a text
FirstCallReturns ==
  /\ \E text \in LlmTexts : firstCallReturns(text)
  /\ UNCHANGED stubVars
  /\ UNCHANGED outsideCuration

\* the first generateContent call throws
FirstCallThrows ==
  /\ \E msg \in LlmErrors : firstCallThrows(msg)
  /\ UNCHANGED stubVars
  /\ UNCHANGED outsideCuration

\* the corrective generateContent call answers with a text
CorrectiveCallReturns ==
  /\ \E text \in ShorterTexts : correctiveCallReturns(text)
  /\ UNCHANGED stubVars
  /\ UNCHANGED outsideCuration

\* the corrective generateContent call throws
CorrectiveCallThrows ==
  /\ \E msg \in LlmErrors : correctiveCallThrows(msg)
  /\ UNCHANGED stubVars
  /\ UNCHANGED outsideCuration

CurateAfterSummaryInPlace ==
  /\ pc = "summaryReturned"
  /\ newsArray' = [newsArray EXCEPT ![idx + 1] = processedNews(current, summaryResult)]
  /\ approvedNews' = push(approvedNews, processedNews(current, summaryResult))
  /\ idx' = idx + 1
  /\ summaryResult' = NoResult
  /\ llmResponse' = NoResult
  /\ trimmedSummary' = <<>>
  /\ pc' = "loop"
  /\ UNCHANGED <<processEnv, env, rejectedNews, llmCalls, result, llmSettled>>
  /\ UNCHANGED stubVars
  /\ UNCHANGED outsideCuration

CurateAfterSummaryStopsOnFailure ==
  /\ pc = "summaryReturned"
  /\ approvedNews' = push(approvedNews, processedNews(current, summaryResult))
  /\ idx' = idx + 1
  /\ summaryResult' = NoResult
  /\ llmResponse' = NoResult
  /\ trimmedSummary' = <<>>
  /\ IF summaryResult.success
     THEN pc' = "loop" /\ UNCHANGED result
     ELSE /\ pc' = "returned"
          /\ result' = curationResult(newsArray, approvedNews', rejectedNews)
  /\ UNCHANGED <<processEnv, env, newsArray, rejectedNews, llmCalls,
                 llmSettled>>
  /\ UNCHANGED stubVars
  /\ UNCHANGED outsideCuration

\* execute resumes after the await and pushes the approved item
CurateAfterSummary ==
  /\ pc = "summaryReturned"
  /\ approvedNews' = push(approvedNews, processedNews(current, summaryResult))
  /\ idx' = idx + 1
  /\ summaryResult' = NoResult
  /\ llmResponse' = NoResult
  /\ trimmedSummary' = <<>>
  /\ pc' = "loop"
  /\ UNCHANGED <<processEnv, env, newsArray, rejectedNews, llmCalls, result,
                 llmSettled>>
  /\ UNCHANGED stubVars
  /\ UNCHANGED outsideCuration

\* the loop is over: execute returns the CurationResult
CurateReturn ==
  /\ pc = "loop" /\ idx = Len(newsArray)
  /\ result' = curationResult(newsArray, approvedNews, rejectedNews)
  /\ pc' = "returned"
  /\ UNCHANGED <<processEnv, env, newsArray, idx, approvedNews, rejectedNews,
                 trimmedSummary, summaryResult, llmCalls, llmResponse,
                 llmSettled>>
  /\ UNCHANGED stubVars
  /\ UNCHANGED outsideCuration

Next ==
  \/ CurateReject
  \/ CurateApprove
  \/ CurateSummarize
  \/ FirstCallReturns
  \/ FirstCallThrows
  \/ CorrectiveCallReturns
  \/ CorrectiveCallThrows
  \/ CurateAfterSummary
  \/ CurateReturn

Spec == Init /\ [][Next]_vars

\* ------------------------- actions of use-cases/curateNews.ts (no summary)
FixedCurateReject ==
  /\ pc = "loop" /\ idx < Len(newsArray)
  /\ LET rejectionReasons == evaluateNewsFixed(current) IN
       /\ Len(rejectionReasons) # 0
       /\ rejectedNews' = push(rejectedNews,
            [news |-> current, reasons |-> rejectionReasons])
  /\ idx' = idx + 1
  /\ UNCHANGED <<processEnv, env, newsArray, pc, approvedNews, trimmedSummary,
                 summaryResult, llmCalls, llmResponse, result, llmSettled>>
  /\ UNCHANGED stubVars
  /\ UNCHANGED outsideCuration

FixedCurateApprove ==
  /\ pc = "loop" /\ idx < Len(newsArray)
  /\ Len(evaluateNewsFixed(current)) = 0
  /\ approvedNews' = push(approvedNews, current)
  /\ idx' = idx + 1
  /\ UNCHANGED <<processEnv, env, newsArray, pc, rejectedNews, trimmedSummary,
                 summaryResult, llmCalls, llmResponse, result, llmSettled>>
  /\ UNCHANGED stubVars
  /\ UNCHANGED outsideCuration

FixedCurateReturn ==
  /\ pc = "loop" /\ idx = Len(newsArray)
  /\ result' = curationResult(newsArray, approvedNews, rejectedNews)
  /\ pc' = "returned"
  /\ UNCHANGED <<processEnv, env, newsArray, idx, approvedNews, rejectedNews,
                 trimmedSummary, summaryResult, llmCalls, llmResponse,
                 llmSettled>>
  /\ UNCHANGED stubVars
  /\ UNCHANGED outsideCuration

NextFixed ==
  \/ FixedCurateReject
  \/ FixedCurateApprove
  \/ FixedCurateReturn

SpecFixed == Init /\ [][NextFixed]_vars

\* ------------- the summarizing run with a capability that never answers
\* a generateContent promise that never settles: the await never resumes
GenerateContentHangs ==
  /\ pc \in {"firstCall", "correctiveCall"}
  /\ pc' = "hung"
  /\ UNCHANGED <<processEnv, env, newsArray, idx, approvedNews, rejectedNews,
                 trimmedSummary, summaryResult, llmCalls, llmResponse, result,
                 llmSettled>>
  /\ UNCHANGED stubVars
  /\ UNCHANGED outsideCuration

NextLive ==
  \/ CurateReject
  \/ CurateApprove
  \/ CurateSummarize
  \/ FirstCallReturns
  \/ FirstCallThrows
  \/ CorrectiveCallReturns
  \/ CorrectiveCallThrows
  \/ CurateAfterSummary
  \/ CurateReturn
  \/ GenerateContentHangs

\* every step that can be taken is eventually taken: the event loop runs
\* each continuation that is ready, and a promise that settles does so
SpecLive == Init /\ [][NextLive]_vars /\ WF_vars(NextLive)

\* ------- the summarizing run, twice, with a deterministic capability
\* the inputs of the repeated run: an item that is summarized, two that are
\* rejected and one that is approved as it is, with no maximum length and
\* with the two configured ones
StubItemKinds ==
  { <<70, "EN", 301>>, <<40, "EN", 301>>, <<70, "ptBR", 300>>,
    <<40, "PTBR", 301>> }

StubProcessEnvs ==
  { pe \in ProcessEnvs : pe.RELEVANCE_SCORE_THRESHOLD = Undefined }

\* the texts the deterministic capability answers with
StubTexts == { <<" ", "a", "b", "\n">>, <<"a", "b", "c", "d", "e">> }
StubShorterTexts == { <<"x", "y">>, <<"u", "v", "w", "x", "y", "z">> }

InitStub ==
  /\ Init
  /\ processEnv \in StubProcessEnvs
  /\ \A p \in DOMAIN newsArray :
       \E kind \in StubItemKinds : newsArray[p] = mkNews(p, kind)

\* the prompt of the generateContent call in flight
promptInFlight == llmCalls[Len(llmCalls)]

\* a deterministic capability answers a prompt it has seen the way it did
stubAllows(prompt, response) ==
  \A m \in llmMemo : m.prompt = prompt => m.response = response

stubRemembers(prompt, response) ==
  llmMemo' = llmMemo \cup { [prompt |-> prompt, response |-> response] }

StubFirstCallReturns ==
  /\ pc = "firstCall"
  /\ \E text \in StubTexts :
       LET response == [ok |-> TRUE, text |-> text] IN
       /\ stubAllows(promptInFlight, response)
       /\ firstCallReturns(text)
       /\ stubRemembers(promptInFlight, response)
  /\ UNCHANGED <<run, firstReport>>
  /\ UNCHANGED outsideCuration

StubFirstCallThrows ==
  /\ pc = "firstCall"
  /\ \E msg \in LlmErrors :
       LET response == [ok |-> FALSE, message |-> msg] IN
       /\ stubAllows(promptInFlight, response)
       /\ firstCallThrows(msg)
       /\ stubRemembers(promptInFlight, response)
  /\ UNCHANGED <<run, firstReport>>
  /\ UNCHANGED outsideCuration

StubCorrectiveCallReturns ==
  /\ pc = "correctiveCall"
  /\ \E text \in StubShorterTexts :
       LET response == [ok |-> TRUE, text |-> text] IN
       /\ stubAllows(promptInFlight, response)
       /\ correctiveCallReturns(text)
       /\ stubRemembers(promptInFlight, response)
  /\ UNCHANGED <<run, firstReport>>
  /\ UNCHANGED outsideCuration

StubCorrectiveCallThrows ==
  /\ pc = "correctiveCall"
  /\ \E msg \in LlmErrors :
       LET response == [ok |-> FALSE, message |-> msg] IN
       /\ stubAllows(promptInFlight, response)
       /\ correctiveCallThrows(msg)
       /\ stubRemembers(promptInFlight, response)
  /\ UNCHANGED <<run, firstReport>>
  /\ UNCHANGED outsideCuration

CurateExecuteAgainKeepingLists ==
  /\ pc = "returned" /\ run = 1
  /\ run' = 2
  /\ firstReport' = result
  /\ idx' = 0
  /\ pc' = "loop"
  /\ result' = NoResult
  /\ UNCHANGED <<processEnv, env, newsArray, approvedNews, rejectedNews,
                 trimmedSummary, summaryResult, llmCalls, llmResponse,
                 llmSettled, llmMemo>>
  /\ UNCHANGED outsideCuration

\* execute is called a second time with the same newsArray: its lists are
\* new and empty
CurateExecuteAgain ==
  /\ pc = "returned" /\ run = 1
  /\ run' = 2
  /\ firstReport' = result
  /\ approvedNews' = <<>>
  /\ rejectedNews' = <<>>
  /\ idx' = 0
  /\ pc' = "loop"
  /\ result' = NoResult
  /\ UNCHANGED <<processEnv, env, newsArray, trimmedSummary, summaryResult,
                 llmCalls, llmResponse, llmSettled, llmMemo>>
  /\ UNCHANGED outsideCuration

NextStub ==
  \/ CurateReject
  \/ CurateApprove
  \/ CurateSummarize
  \/ StubFirstCallReturns
  \/ StubFirstCallThrows
  \/ StubCorrectiveCallReturns
  \/ StubCorrectiveCallThrows
  \/ CurateAfterSummary
  \/ CurateReturn
  \/ CurateExecuteAgain

SpecStub == InitStub /\ [][NextStub]_vars

TypeOK ==
  /\ idx \in 0..Len(newsArray)
  /\ pc \in {"loop", "firstCall", "correctiveCall", "summaryReturned",
             "returned", "hung", "idle"}
  /\ run \in {1, 2}

\* ------------------------------- JsonNewsDataRepository (validating loader)
\* the largest news array of a source file
MaxItems == 3

\* JSON values, by their typeof
Str(s) == [type |-> "string", value |-> s]
Numb(n) == [type |-> "number", value |-> n]
Arr(a) == [type |-> "array", value |-> a]
Obj(o) == [type |-> "object", value |-> o]
Null == [type |-> "null"]

\* the items a source file is made of: two valid ones, the second with
\* whitespace around its strings, and one for each way of being invalid
JsonItems ==
  << Obj([title |-> Str(<<"t">>), content |-> Str(<<"c">>),
          source |-> Str(<<"s">>), categories |-> Arr(<<Str(<<"tech">>)>>),
          relevanceScore |-> Numb(80), language |-> Str(<<"EN">>)]),
     Obj([title |-> Str(<<" ", "u">>), content |-> Str(<<"d", "\n">>),
          source |-> Str(<<"s", " ">>),
          categories |-> Arr(<<Str(<<" ", "ai">>), Str(<<"web">>)>>),
          relevanceScore |-> Numb(0), language |-> Str(<<"ptBR", " ">>)]),
     Null,
     Obj([title |-> Str(<<"t">>), content |-> Str(<<"c">>),
          source |-> Str(<<"s">>), categories |-> Arr(<<Str(<<"tech">>)>>),
          relevanceScore |-> Numb(80)]),
     Obj([title |-> Str(<<" ">>), content |-> Str(<<"c">>),
          source |-> Str(<<"s">>), categories |-> Arr(<<Str(<<"tech">>)>>),
          relevanceScore |-> Numb(80), language |-> Str(<<"EN">>)]),
     Obj([title |-> Str(<<"t">>), content |-> Str(<<"c">>),
          source |-> Str(<<"s">>), categories |-> Arr(<<>>),
          relevanceScore |-> Numb(80), language |-> Str(<<"EN">>)]),
     Obj([title |-> Str(<<"t">>), content |-> Str(<<"c">>),
          source |-> Str(<<"s">>),
          categories |-> Arr(<<Str(<<"tech">>), Numb(1)>>),
          relevanceScore |-> Numb(80), language |-> Str(<<"EN">>)]),
     Obj([title |-> Str(<<"t">>), content |-> Str(<<"c">>),
          source |-> Str(<<"s">>), categories |-> Arr(<<Str(<<"tech">>)>>),
          relevanceScore |-> Numb(101), language |-> Str(<<"EN">>)]),
     Obj([title |-> Str(<<"t">>), content |-> Str(<<"c">>),
          source |-> Str(<<"s">>), categories |-> Arr(<<Str(<<"tech">>)>>),
          relevanceScore |-> Str(<<"0.8">>), language |-> Str(<<"EN">>)]) >>

\* the parsed source files: the root is an object with a news array of items
\* (by their number in JsonItems), or one of the malformed roots
JsonFiles ==
  UNION { { [root |-> "object", news |-> f] : f \in [1..n -> DOMAIN JsonItems] }
          : n \in 0..MaxItems }
  \cup { [root |-> r, news |-> <<>>] : r \in {"null", "noNews", "newsNotArray"} }

\* jsonData.news of a file
newsOf(file) == [p \in DOMAIN file.news |-> JsonItems[file.news[p]]]

requiredFields ==
  <<"title", "content", "source", "categories", "relevanceScore", "language">>

\* typeof v !== 'string' || !v.trim()
notNonEmptyString(v) == v.type # "string" \/ trim(v.value) = <<>>

itemError(message) == [ok |-> FALSE, message |-> message]

\* validateNewsItem: the validated News, or the Error it throws
validateNewsItem(newsItem) ==
  IF newsItem.type # "object" THEN itemError("must be an object")
  ELSE LET o == newsItem.value IN
  IF \E p \in DOMAIN requiredFields : requiredFields[p] \notin DOMAIN o
  THEN itemError("missing required fields")
  ELSE IF notNonEmptyString(o.title)
  THEN itemError("title must be a non-empty string")
  ELSE IF notNonEmptyString(o.content)
  THEN itemError("content must be a non-empty string")
  ELSE IF notNonEmptyString(o.source)
  THEN itemError("source must be a non-empty string")
  ELSE IF o.categories.type # "array" \/ Len(o.categories.value) = 0
  THEN itemError("categories must be a non-empty array")
  ELSE IF \E c \in DOMAIN o.categories.value :
            notNonEmptyString(o.categories.value[c])
  THEN itemError("all categories must be non-empty strings")
  ELSE IF \/ o.relevanceScore.type # "number"
          \/ o.relevanceScore.value < 0
          \/ o.relevanceScore.value > 100
  THEN itemError("relevanceScore must be a number between 0 and 1")
  ELSE IF notNonEmptyString(o.language)
  THEN itemError("language must be a non-empty string")
  ELSE [ ok |-> TRUE,
         news |->
           [ title |-> trim(o.title.value),
             content |-> trim(o.content.value),
             source |-> trim(o.source.value),
             categories |->
               [c \in DOMAIN o.categories.value |-> trim(o.categories.value[c].value)],
             relevanceScore |-> o.relevanceScore.value,
             language |-> trim(o.language.value) ] ]

\* the forEach of validateAndExtractNews over the first n items: the
\* validated items and the number of errors
RECURSIVE validateEach(_, _)
validateEach(items, n) ==
  IF n = 0 THEN [validatedNews |-> <<>>, errors |-> 0]
  ELSE LET before == validateEach(items, n - 1)
           v == validateNewsItem(items[n])
       IN IF v.ok
          THEN [before EXCEPT !.validatedNews = push(@, v.news)]
          ELSE [before EXCEPT !.errors = @ + 1]

\* Math.ceil(length * 0.5)
errorThreshold(length) == (length + 1) \div 2

InvalidDataFormatError(message) ==
  [threw |-> TRUE, name |-> "InvalidDataFormatError", message |-> message,
   news |-> <<>>]

\* validateAndExtractNews(jsonData)
validateAndExtractNews(file) ==
  IF file.root = "null"
  THEN InvalidDataFormatError("Root element must be an object")
  ELSE IF file.root = "noNews"
  THEN InvalidDataFormatError("Missing news property in root object")
  ELSE IF file.root = "newsNotArray"
  THEN InvalidDataFormatError("news property must be an array")
  ELSE LET each == validateEach(newsOf(file), Len(file.news)) IN
       IF each.errors >= errorThreshold(Len(file.news))
       THEN InvalidDataFormatError("Too many invalid news items")
       ELSE [threw |-> FALSE, name |-> "", message |-> "",
             news |-> each.validatedNews]

InitJson ==
  /\ CurationIdle
  /\ LoadIdle
  /\ DbIdle
  /\ AppIdle
  /\ jsonFile \in JsonFiles
  /\ extracted = NoResult

\* loadNews has parsed the file and calls validateAndExtractNews
ValidateAndExtractNews ==
  /\ extracted = NoResult
  /\ extracted' = validateAndExtractNews(jsonFile)
  /\ UNCHANGED jsonFile
  /\ UNCHANGED curationVars
  /\ UNCHANGED <<loadVars, dbVars, appVars>>

NextJson ==
  \/ ValidateAndExtractNews

SpecJson == InitJson /\ [][NextJson]_vars

\* ------------------------------------------------------ load use cases
\* the messages a rejected repository promise carries
SourceErrors == { "Data source access error" }

\* the result of LoadNewsFromSourceUseCase.execute
sourceResult(news) == [news |-> news, totalLoaded |-> Len(news)]

\* the result of LoadNewsFromJsonUseCase.execute
jsonResult(news, errs) ==
  [ news |-> news,
    metadata |-> [totalFound |-> Len(news), totalLoaded |-> Len(news)],
    errors |-> errs ]

InitLoad ==
  /\ CurationIdle
  /\ JsonIdle
  /\ DbIdle
  /\ AppIdle
  /\ useCase \in {"LoadNewsFromSourceUseCase", "LoadNewsFromJsonUseCase"}
  /\ loadPc = "isSourceAvailable"
  /\ isAvailable = "pending"
  /\ loadNewsCalls = 0
  /\ loaded = NoResult
  /\ errors = <<>>
  /\ loadResult = NoResult

SourceIsAvailableUnchecked ==
  /\ useCase = "LoadNewsFromSourceUseCase" /\ loadPc = "isSourceAvailable"
  /\ \/ /\ isAvailable' \in {"true", "false"}
        /\ loadPc' = "loadNews"
        /\ UNCHANGED loadResult
     \/ /\ isAvailable' = "threw"
        /\ loadResult' = sourceResult(<<>>)
        /\ loadPc' = "returned"
  /\ UNCHANGED <<useCase, loadNewsCalls, loaded, errors>>
  /\ UNCHANGED <<curationVars, jsonVars, dbVars, appVars>>

\* LoadNewsFromSourceUseCase.execute up to the answer of isSourceAvailable:
\* true goes on to loadNews, false throws into the catch block, which
\* returns the empty result, and so does a rejected promise
SourceIsAvailable ==
  /\ useCase = "LoadNewsFromSourceUseCase" /\ loadPc = "isSourceAvailable"
  /\ \/ /\ isAvailable' = "true"
        /\ loadPc' = "loadNews"
        /\ UNCHANGED loadResult
     \/ /\ isAvailable' \in {"false", "threw"}
        /\ loadResult' = sourceResult(<<>>)
        /\ loadPc' = "returned"
  /\ UNCHANGED <<useCase, loadNewsCalls, loaded, errors>>
  /\ UNCHANGED <<curationVars, jsonVars, dbVars, appVars>>

\* loadNews settles: execute returns the news with their number, or the
\* empty result from the catch block
SourceLoadNews ==
  /\ useCase = "LoadNewsFromSourceUseCase" /\ loadPc = "loadNews"
  /\ loadNewsCalls' = loadNewsCalls + 1
  /\ \/ \E news \in Batches :
          /\ loaded' = [threw |-> FALSE, news |-> news, message |-> ""]
          /\ loadResult' = sourceResult(news)
     \/ \E msg \in SourceErrors :
          /\ loaded' = [threw |-> TRUE, news |-> <<>>, message |-> msg]
          /\ loadResult' = sourceResult(<<>>)
  /\ loadPc' = "returned"
  /\ UNCHANGED <<useCase, isAvailable, errors>>
  /\ UNCHANGED <<curationVars, jsonVars, dbVars, appVars>>

\* LoadNewsFromJsonUseCase.execute up to the answer of isSourceAvailable
JsonIsAvailable ==
  /\ useCase = "LoadNewsFromJsonUseCase" /\ loadPc = "isSourceAvailable"
  /\ \/ /\ isAvailable' = "true"
        /\ loadPc' = "getSourceInfo"
        /\ UNCHANGED <<loadResult, errors>>
     \/ /\ isAvailable' = "false"
        /\ errors' = <<"Data source is not available">>
        /\ loadResult' = jsonResult(<<>>, errors')
        /\ loadPc' = "returned"
     \/ \E msg \in SourceErrors :
          /\ isAvailable' = "threw"
          /\ errors' = <<msg>>
          /\ loadResult' = jsonResult(<<>>, errors')
          /\ loadPc' = "returned"
  /\ UNCHANGED <<useCase, loadNewsCalls, loaded>>
  /\ UNCHANGED <<curationVars, jsonVars, dbVars, appVars>>

\* getSourceInfo settles: its failure is noted in errors and execute goes on
JsonGetSourceInfo ==
  /\ useCase = "LoadNewsFromJsonUseCase" /\ loadPc = "getSourceInfo"
  /\ \/ UNCHANGED errors
     \/ errors' = push(errors, "Failed to get source info")
  /\ loadPc' = "loadNews"
  /\ UNCHANGED <<useCase, isAvailable, loadNewsCalls, loaded, loadResult>>
  /\ UNCHANGED <<curationVars, jsonVars, dbVars, appVars>>

\* loadNews settles: execute returns the news with the metadata, or the
\* empty result with the message in front of the errors
JsonLoadNews ==
  /\ useCase = "LoadNewsFromJsonUseCase" /\ loadPc = "loadNews"
  /\ loadNewsCalls' = loadNewsCalls + 1
  /\ \/ \E news \in Batches :
          /\ loaded' = [threw |-> FALSE, news |-> news, message |-> ""]
          /\ loadResult' = jsonResult(news, errors)
          /\ UNCHANGED errors
     \/ \E msg \in SourceErrors :
          /\ loaded' = [threw |-> TRUE, news |-> <<>>, message |-> msg]
          /\ errors' = <<msg>> \o errors
          /\ loadResult' = jsonResult(<<>>, errors')
  /\ loadPc' = "returned"
  /\ UNCHANGED <<useCase, isAvailable>>
  /\ UNCHANGED <<curationVars, jsonVars, dbVars, appVars>>

NextLoad ==
  \/ SourceIsAvailable
  \/ SourceLoadNews
  \/ JsonIsAvailable
  \/ JsonGetSourceInfo
  \/ JsonLoadNews

SpecLoad == InitLoad /\ [][NextLoad]_vars

\* ------------------------------------------------------------ DBRepository
\* the pool clients that run insertNews at the same time
Clients == {1, 2}

\* the most insertCategory calls of a run
MaxCategoryCalls == 2

\* the categories of the items handed to insertNews
DbCategoryLists == { <<"ai", "tech">>, <<"tech", "ai">>, <<"AI">>, <<>> }

\* the names handed to insertCategory
CategoryNames == { "ai", "AI" }

\* the News client c inserts
dbNews(c, cats) ==
  [ title |-> <<"n", ToString(c)>>,
    content |-> <<"c", ToString(c)>>,
    source |-> <<"s">>,
    categories |-> cats,
    relevanceScore |-> 80,
    language |-> "EN" ]

\* insertNews(newsData) has been called and has not yet asked for a client
called(newsData) ==
  [ pc |-> "connect", newsData |-> newsData, newsId |-> 0, k |-> 1,
    categoryId |-> 0, news |-> {}, categories |-> {}, links |-> {},
    failure |-> "", rollback |-> FALSE, outcome |-> "pending",
    value |-> <<>> ]

InitDb ==
  /\ CurationIdle
  /\ JsonIdle
  /\ LoadIdle
  /\ AppIdle
  /\ newsTable = {}
  /\ categoriesTable = {}
  /\ newsCategories = {}
  /\ sequences = [news |-> 1, categories |-> 1]
  /\ \E cats \in [Clients -> DbCategoryLists] :
       txn = [c \in Clients |-> called(dbNews(c, cats[c]))]
  /\ categoryCalls = 0
  /\ categoryReturned = NoResult

\* WHERE name = $1, and the unique index on categories.name that ON CONFLICT
\* (name) of insertCategory relies on
sameName(a, b) == a = b

\* the rows of categories a statement of client c sees: the committed ones
\* and those of its own transaction
visibleCategories(c) == categoriesTable \cup txn[c].categories

\* the rows of categories that other open transactions have inserted: an
\* insert of the same name waits for their end
heldByOthers(c, name) ==
  \E d \in Clients \ {c} : \E row \in txn[d].categories : sameName(row.name, name)

\* a query of the try block rejects with this error: control goes to the
\* catch block
queryRejects(c, error) ==
  /\ txn' = [txn EXCEPT ![c].pc = "ROLLBACK", ![c].failure = error]
  /\ UNCHANGED <<newsTable, categoriesTable, newsCategories, sequences>>

\* a query of the try block rejects because the server or the connection
\* fails
queryFails(c) == queryRejects(c, "rejected")

\* const client = await this.pool.connect(), before the try block
PoolConnect(c) ==
  /\ txn[c].pc = "connect"
  /\ \/ txn' = [txn EXCEPT ![c].pc = "BEGIN"]
     \/ txn' = [txn EXCEPT ![c].pc = "done", ![c].failure = "rejected",
                           ![c].outcome = "threw"]
  /\ UNCHANGED <<newsTable, categoriesTable, newsCategories, sequences,
                 categoryCalls, categoryReturned>>
  /\ UNCHANGED <<curationVars, jsonVars, loadVars, appVars>>

\* await client.query('BEGIN')
Begin(c) ==
  /\ txn[c].pc = "BEGIN"
  /\ \/ /\ txn' = [txn EXCEPT ![c].pc = "insertNews"]
        /\ UNCHANGED <<newsTable, categoriesTable, newsCategories, sequences>>
     \/ queryFails(c)
  /\ UNCHANGED <<categoryCalls, categoryReturned>>
  /\ UNCHANGED <<curationVars, jsonVars, loadVars, appVars>>

InsertNewsRowAutocommit(c) ==
  /\ txn[c].pc = "insertNews"
  /\ LET d == txn[c].newsData
         row == [ id |-> sequences.news, title |-> d.title,
                  content |-> d.content, source |-> d.source,
                  relevance_score |-> d.relevanceScore,
                  language |-> d.language ]
     IN \/ /\ txn' = [txn EXCEPT
                 ![c].pc = IF Len(d.categories) > 0 THEN "select" ELSE "COMMIT",
                 ![c].newsId = row.id]
           /\ newsTable' = newsTable \cup {row}
           /\ sequences' = [sequences EXCEPT !.news = @ + 1]
           /\ UNCHANGED <<categoriesTable, newsCategories>>
        \/ queryFails(c)
  /\ UNCHANGED <<categoryCalls, categoryReturned>>
  /\ UNCHANGED <<curationVars, jsonVars, loadVars, appVars>>

\* INSERT INTO news ... RETURNING, inside the transaction
InsertNewsRow(c) ==
  /\ txn[c].pc = "insertNews"
  /\ LET d == txn[c].newsData
         row == [ id |-> sequences.news, title |-> d.title,
                  content |-> d.content, source |-> d.source,
                  relevance_score |-> d.relevanceScore,
                  language |-> d.language ]
     IN \/ /\ txn' = [txn EXCEPT
                 ![c].pc = IF Len(d.categories) > 0 THEN "select" ELSE "COMMIT",
                 ![c].newsId = row.id,
                 ![c].news = {row}]
           /\ sequences' = [sequences EXCEPT !.news = @ + 1]
           /\ UNCHANGED <<newsTable, categoriesTable, newsCategories>>
        \/ queryFails(c)
  /\ UNCHANGED <<categoryCalls, categoryReturned>>
  /\ UNCHANGED <<curationVars, jsonVars, loadVars, appVars>>

\* getOrCreateCategory: SELECT id FROM categories WHERE name = $1
GetOrCreateCategorySelect(c) ==
  /\ txn[c].pc = "select"
  /\ LET name == txn[c].newsData.categories[txn[c].k]
         rows == { row \in visibleCategories(c) : sameName(row.name, name) }
     IN \/ /\ IF rows # {}
              THEN \E row \in rows :
                     txn' = [txn EXCEPT ![c].pc = "associate",
                                        ![c].categoryId = row.id]
              ELSE txn' = [txn EXCEPT ![c].pc = "create"]
           /\ UNCHANGED <<newsTable, categoriesTable, newsCategories, sequences>>
        \/ queryFails(c)
  /\ UNCHANGED <<categoryCalls, categoryReturned>>
  /\ UNCHANGED <<curationVars, jsonVars, loadVars, appVars>>

\* getOrCreateCategory: INSERT INTO categories (name) ... RETURNING id; a
\* committed row of that name is a unique violation, a row of that name in
\* another open transaction makes the statement wait
GetOrCreateCategoryInsert(c) ==
  /\ txn[c].pc = "create"
  /\ LET name == txn[c].newsData.categories[txn[c].k]
         row == [id |-> sequences.categories, name |-> name]
     IN \/ /\ \E old \in categoriesTable : sameName(old.name, name)
           /\ queryRejects(c, "unique_violation")
        \/ /\ \A old \in categoriesTable : ~sameName(old.name, name)
           /\ ~heldByOthers(c, name)
           /\ txn' = [txn EXCEPT ![c].pc = "associate",
                                 ![c].categoryId = row.id,
                                 ![c].categories = @ \cup {row}]
           /\ sequences' = [sequences EXCEPT !.categories = @ + 1]
           /\ UNCHANGED <<newsTable, categoriesTable, newsCategories>>
        \/ queryFails(c)
  /\ UNCHANGED <<categoryCalls, categoryReturned>>
  /\ UNCHANGED <<curationVars, jsonVars, loadVars, appVars>>

\* INSERT INTO news_categories ... ON CONFLICT DO NOTHING, and the next
\* round of the loop over the categories
AssociateCategory(c) ==
  /\ txn[c].pc = "associate"
  /\ \/ /\ txn' = [txn EXCEPT
              ![c].links = @ \cup { [news_id |-> txn[c].newsId,
                                     category_id |-> txn[c].categoryId] },
              ![c].k = @ + 1,
              ![c].pc = IF txn[c].k < Len(txn[c].newsData.categories)
                        THEN "select" ELSE "COMMIT"]
        /\ UNCHANGED <<newsTable, categoriesTable, newsCategories, sequences>>
     \/ queryFails(c)
  /\ UNCHANGED <<categoryCalls, categoryReturned>>
  /\ UNCHANGED <<curationVars, jsonVars, loadVars, appVars>>

\* await client.query('COMMIT'), the return of the News, and the release of
\* the client in the finally block
Commit(c) ==
  /\ txn[c].pc = "COMMIT"
  /\ \/ /\ newsTable' = newsTable \cup txn[c].news
        /\ categoriesTable' = categoriesTable \cup txn[c].categories
        /\ newsCategories' = newsCategories \cup txn[c].links
        /\ txn' = [txn EXCEPT ![c].pc = "done",
                              ![c].news = {}, ![c].categories = {},
                              ![c].links = {},
                              ![c].outcome = "returned",
                              ![c].value = txn[c].newsData]
        /\ UNCHANGED sequences
     \/ queryFails(c)
  /\ UNCHANGED <<categoryCalls, categoryReturned>>
  /\ UNCHANGED <<curationVars, jsonVars, loadVars, appVars>>

\* the catch block: await client.query('ROLLBACK') and return null, or the
\* rejection of ROLLBACK leaving insertNews; the finally block releases the
\* client, and the server drops the transaction of a broken session
Rollback(c) ==
  /\ txn[c].pc = "ROLLBACK"
  /\ \E outcome \in {"null", "threw"} :
       txn' = [txn EXCEPT ![c].pc = "done",
                          ![c].news = {}, ![c].categories = {},
                          ![c].links = {},
                          ![c].rollback = TRUE,
                          ![c].outcome = outcome]
  /\ UNCHANGED <<newsTable, categoriesTable, newsCategories, sequences,
                 categoryCalls, categoryReturned>>
  /\ UNCHANGED <<curationVars, jsonVars, loadVars, appVars>>

\* insertCategory: INSERT ... ON CONFLICT (name) DO NOTHING RETURNING through
\* the pool, then the SELECT of the existing row when nothing was inserted;
\* null when a query rejects
InsertCategory(name) ==
  /\ categoryCalls < MaxCategoryCalls
  /\ categoryCalls' = categoryCalls + 1
  /\ LET existing == { row \in categoriesTable : sameName(row.name, name) }
         row == [id |-> sequences.categories, name |-> name]
     IN \/ /\ existing # {}
           /\ \E old \in existing : categoryReturned' = old
           /\ UNCHANGED <<categoriesTable, sequences>>
        \/ /\ existing = {}
           /\ ~heldByOthers(0, name)
           /\ categoriesTable' = categoriesTable \cup {row}
           /\ sequences' = [sequences EXCEPT !.categories = @ + 1]
           /\ categoryReturned' = row
        \/ /\ categoryReturned' = Null
           /\ UNCHANGED <<categoriesTable, sequences>>
  /\ UNCHANGED <<newsTable, newsCategories, txn>>
  /\ UNCHANGED <<curationVars, jsonVars, loadVars, appVars>>

NextDb ==
  \/ \E c \in Clients : PoolConnect(c)
  \/ \E c \in Clients : Begin(c)
  \/ \E c \in Clients : InsertNewsRow(c)
  \/ \E c \in Clients : GetOrCreateCategorySelect(c)
  \/ \E c \in Clients : GetOrCreateCategoryInsert(c)
  \/ \E c \in Clients : AssociateCategory(c)
  \/ \E c \in Clients : Commit(c)
  \/ \E c \in Clients : Rollback(c)
  \/ \E name \in CategoryNames : InsertCategory(name)

SpecDb == InitDb /\ [][NextDb]_vars

\* ----------------------------------------------------------- NewsletterApp
\* the items of the source file of a run: one that is approved and
\* summarized, one that is approved as it is, one that is rejected
AppItemKinds == { <<70, "EN", 301>>, <<70, "ptBR", 300>>, <<40, "EN", 301>> }

\* what loadNews can hand to the application
AppBatches ==
  UNION { { [p \in 1..n |-> mkNews(p, f[p])] : f \in [1..n -> AppItemKinds] }
          : n \in 0..MaxBatch }

\* the ways summaryUseCase.execute returns for an item within a run
AppSummaries == { "failed", "summarized" }

appSummaryResult(news, how) ==
  IF how = "failed"
  THEN failureResult(news, "Gemini API error: quota")
  ELSE createResult(news, <<"a", "b">>, TRUE)

\* the two lists of CurateNewsUseCase.execute after the first n items, the
\* summary use case returning for item p the way summaries[p] says
RECURSIVE curateFirst(_, _, _, _)
curateFirst(news, n, summaries, e) ==
  IF n = 0 THEN [approvedNews |-> <<>>, rejectedNews |-> <<>>]
  ELSE LET before == curateFirst(news, n - 1, summaries, e)
           item == news[n]
           rejectionReasons == evaluateNews(item, e)
       IN IF Len(rejectionReasons) # 0
          THEN [before EXCEPT !.rejectedNews =
                  push(@, [news |-> item, reasons |-> rejectionReasons])]
          ELSE IF startsSummary(item, rejectionReasons)
          THEN [before EXCEPT !.approvedNews =
                  push(@, processedNews(item, appSummaryResult(item, summaries[n])))]
          ELSE [before EXCEPT !.approvedNews = push(@, item)]

\* CurateNewsUseCase.execute(news) as one step of the application
curateAll(news, summaries, e) ==
  LET lists == curateFirst(news, Len(news), summaries, e)
  IN curationResult(news, lists.approvedNews, lists.rejectedNews)

\* the row INSERT INTO news ... RETURNING of insertNews writes
newsRow(id, newsData) ==
  [ id |-> id, title |-> newsData.title, content |-> newsData.content,
    source |-> newsData.source, relevance_score |-> newsData.relevanceScore,
    language |-> newsData.language ]

InitApp ==
  /\ CurationIdle
  /\ JsonIdle
  /\ LoadIdle
  /\ DbIdle
  /\ appPc = "testConnection"
  /\ appLoad = NoResult
  /\ appCuration = NoResult
  /\ insertIdx = 0
  /\ insertCalls = <<>>
  /\ insertResults = <<>>
  /\ poolEnds = 0

\* one round of the loop of insertMultipleNews: insertNews is called with
\* the item; it stores the row and returns the News, or returns null, or
\* throws into the catch block, which pushes null
insertOne(news) ==
  /\ insertCalls' = push(insertCalls, news)
  /\ \/ /\ newsTable' = newsTable \cup { newsRow(sequences.news, news) }
        /\ sequences' = [sequences EXCEPT !.news = @ + 1]
        /\ insertResults' = push(insertResults, [null |-> FALSE, title |-> news.title])
     \/ /\ insertResults' = push(insertResults, [null |-> TRUE, title |-> <<>>])
        /\ UNCHANGED <<newsTable, sequences>>
  /\ insertIdx' = insertIdx + 1
  /\ UNCHANGED <<categoriesTable, newsCategories, txn, categoryCalls,
                 categoryReturned>>

\* run of the summarizing application: testConnection answers
AppTestConnection ==
  /\ appPc = "testConnection"
  /\ appPc' \in {"load", "exited"}
  /\ UNCHANGED <<appLoad, appCuration, insertIdx, insertCalls, insertResults,
                 poolEnds>>
  /\ UNCHANGED <<curationVars, jsonVars, loadVars, dbVars>>

\* loadNewsUseCase.execute returns; run returns when no news was loaded
AppLoad ==
  /\ appPc = "load"
  /\ \E news \in AppBatches : appLoad' = sourceResult(news)
  /\ appPc' = IF Len(appLoad'.news) = 0 THEN "returned" ELSE "curate"
  /\ UNCHANGED <<appCuration, insertIdx, insertCalls, insertResults, poolEnds>>
  /\ UNCHANGED <<curationVars, jsonVars, loadVars, dbVars>>

\* curateNewsUseCase.execute returns; run returns when nothing was approved
AppCurate ==
  /\ appPc = "curate"
  /\ \E summaries \in [DOMAIN appLoad.news -> AppSummaries] :
       appCuration' = curateAll(appLoad.news, summaries, env)
  /\ appPc' = IF appCuration'.totalApproved = 0 THEN "returned" ELSE "insert"
  /\ UNCHANGED <<appLoad, insertIdx, insertCalls, insertResults, poolEnds>>
  /\ UNCHANGED <<curationVars, jsonVars, loadVars>>
  /\ UNCHANGED dbVars

\* one round of insertMultipleNews over curationResult.approvedNews
AppInsertNews ==
  /\ appPc = "insert"
  /\ insertIdx < Len(appCuration.approvedNews)
  /\ insertOne(appCuration.approvedNews[insertIdx + 1])
  /\ UNCHANGED <<appPc, appLoad, appCuration, poolEnds>>
  /\ UNCHANGED <<curationVars, jsonVars, loadVars>>

\* the final report and dbRepository.close(); a rejected close goes to the
\* catch block of run, which exits the process
AppReportAndClose ==
  /\ appPc = "insert"
  /\ insertIdx = Len(appCuration.approvedNews)
  /\ poolEnds' = poolEnds + 1
  /\ appPc' \in {"returned", "exited"}
  /\ UNCHANGED <<appLoad, appCuration, insertIdx, insertCalls, insertResults>>
  /\ UNCHANGED <<curationVars, jsonVars, loadVars, dbVars>>

NextApp ==
  \/ AppTestConnection
  \/ AppLoad
  \/ AppCurate
  \/ AppInsertNews
  \/ AppReportAndClose

SpecApp == InitApp /\ [][NextApp]_vars

\* ------------------------------------------- NewsletterApp of src/app.ts
\* testConnection answers; process.exit(1) ends the process at once
DirectTestConnection ==
  /\ appPc = "testConnection"
  /\ appPc' \in {"load", "exited"}
  /\ UNCHANGED <<appLoad, appCuration, insertIdx, insertCalls, insertResults,
                 poolEnds>>
  /\ UNCHANGED <<curationVars, jsonVars, loadVars, dbVars>>

\* loadNewsUseCase.execute returns; with no news run returns through the
\* finally block, which closes the pool
DirectLoad ==
  /\ appPc = "load"
  /\ \E news \in AppBatches : appLoad' = jsonResult(news, <<>>)
  /\ IF Len(appLoad'.news) = 0
     THEN /\ poolEnds' = poolEnds + 1
          /\ appPc' \in {"returned", "exited"}
     ELSE /\ appPc' = "insert"
          /\ UNCHANGED poolEnds
  /\ UNCHANGED <<appCuration, insertIdx, insertCalls, insertResults>>
  /\ UNCHANGED <<curationVars, jsonVars, loadVars, dbVars>>

\* one round of insertMultipleNews over loadResult.news
DirectInsertNews ==
  /\ appPc = "insert"
  /\ insertIdx < Len(appLoad.news)
  /\ insertOne(appLoad.news[insertIdx + 1])
  /\ UNCHANGED <<appPc, appLoad, appCuration, poolEnds>>
  /\ UNCHANGED <<curationVars, jsonVars, loadVars>>

\* the final report, showDatabaseStats, and the finally block closing the
\* pool; a rejected close rejects run, and main exits the process
DirectStatsAndClose ==
  /\ appPc = "insert"
  /\ insertIdx = Len(appLoad.news)
  /\ poolEnds' = poolEnds + 1
  /\ appPc' \in {"returned", "exited"}
  /\ UNCHANGED <<appLoad, appCuration, insertIdx, insertCalls, insertResults>>
  /\ UNCHANGED <<curationVars, jsonVars, loadVars, dbVars>>

NextAppDirect ==
  \/ DirectTestConnection
  \/ DirectLoad
  \/ DirectInsertNews
  \/ DirectStatsAndClose

SpecAppDirect == InitApp /\ [][NextAppDirect]_vars

\* ------------------------------------------------- vocabulary of the claims
Range(f) == { f[k] : k \in DOMAIN f }

\* the items the loop has finished
Processed == { newsArray[p] : p \in 1..idx }

scoreFails(n) == n.relevanceScore < env.RELEVANCE_SCORE_THRESHOLD

languageFails(n) == n.language \notin {"ptBR", "EN"}

accepted(n) == ~scoreFails(n) /\ ~languageFails(n)

\* the entries of the two output lists that stand for the input item n
approvedFor(n) == { k \in DOMAIN approvedNews : approvedNews[k].title = n.title }
rejectedFor(n) ==
  { k \in DOMAIN rejectedNews : rejectedNews[k].news.title = n.title }

\* the generateContent calls made on behalf of the input item n
callsFor(n) == { k \in DOMAIN llmCalls : llmCalls[k].title = n.title }

\* the position of an item in the input, by its title
position(t) == CHOOSE p \in DOMAIN newsArray : newsArray[p].title = t

\* the threshold process.env configures, 0.7 when it configures none
configuredThreshold ==
  IF processEnv.RELEVANCE_SCORE_THRESHOLD = Undefined
  THEN DefaultRelevanceThreshold
  ELSE processEnv.RELEVANCE_SCORE_THRESHOLD[1]

\* the positions of a text that hold something other than whitespace
ink(text) == { k \in DOMAIN text : text[k] \notin Whitespace }

firstInk(text) ==
  CHOOSE k \in ink(text) : \A j \in 1..(k - 1) : text[j] \in Whitespace
lastInk(text) ==
  CHOOSE k \in ink(text) : \A j \in (k + 1)..Len(text) : text[j] \in Whitespace

\* a text without its leading and trailing whitespace
stripped(text) ==
  IF ink(text) = {} THEN <<>> ELSE SubSeq(text, firstInk(text), lastInk(text))

\* the last generateContent promise was of this kind and settled this way
answered(kind, ok) ==
  /\ "kind" \in DOMAIN llmResponse
  /\ llmResponse.kind = kind
  /\ llmResponse.ok = ok

\* the maximum length is configured, and it is m
maxLengthIs(m) ==
  env.SUMMARY_MAX_LENGTH # Undefined /\ env.SUMMARY_MAX_LENGTH[1] = m

MaxLengths == { n[1] : n \in { env.SUMMARY_MAX_LENGTH } \ { Undefined } }

endsWithEllipsis(s) ==
  Len(s) >= 3 /\ SubSeq(s, Len(s) - 2, Len(s)) = Ellipsis

\* the first n characters of a text, all of it when it is shorter, none when
\* n is negative
firstChars(s, n) ==
  IF n <= 0 THEN <<>> ELSE IF n >= Len(s) THEN s ELSE SubSeq(s, 1, n)

\* ------------------------------------------------------------------ claims

\* C1: every finished item is rejected iff its score is below the threshold
\* or its language is not exactly "ptBR" or "EN", and approved otherwise; a
\* rejected item carries the score reason (with the score and the threshold)
\* iff the score fails and the language reason (with the language) iff the
\* language fails, nothing else, and the score reason first when both fail.
C1_ReasonsAccumulate ==
  \A n \in Processed :
    LET scoreText ==
          <<"Score insuficiente (", ToString(n.relevanceScore), " < ",
            ToString(env.RELEVANCE_SCORE_THRESHOLD), ")">>
        languageText == <<"Idioma nao suportado (", n.language, ")">>
    IN /\ (rejectedFor(n) # {}) <=> (scoreFails(n) \/ languageFails(n))
       /\ (approvedFor(n) # {}) <=> (~scoreFails(n) /\ ~languageFails(n))
       /\ \A k \in rejectedFor(n) :
            LET reasons == rejectedNews[k].reasons IN
            /\ (scoreText \in Range(reasons)) <=> scoreFails(n)
            /\ (languageText \in Range(reasons)) <=> languageFails(n)
            /\ Len(reasons) = (IF scoreFails(n) THEN 1 ELSE 0)
                              + (IF languageFails(n) THEN 1 ELSE 0)
            /\ (scoreFails(n) /\ languageFails(n))
                 => reasons = <<scoreText, languageText>>

\* a returned batch with one item rejected for both reasons and one item
\* rejected only for the spelling of its language
C1_Witness ==
  /\ pc = "returned"
  /\ \E k \in DOMAIN result.rejectedNews :
       Len(result.rejectedNews[k].reasons) = 2
  /\ \E k \in DOMAIN result.rejectedNews :
       /\ result.rejectedNews[k].news.language \in {"en", "PTBR"}
       /\ Len(result.rejectedNews[k].reasons) = 1

\* C2: the threshold is the configured RELEVANCE_SCORE_THRESHOLD (0.7 when
\* none is configured): a finished item with a supported language is
\* approved iff its score is at least the configured threshold.
C2_ConfiguredThreshold ==
  \A n \in Processed :
    ~languageFails(n) =>
      ((approvedFor(n) # {}) <=> (n.relevanceScore >= configuredThreshold))

\* C3: no generateContent call is ever made on behalf of an item that fails a
\* rule, whatever the length of its content.
C3_NoSummaryForRejected ==
  \A p \in DOMAIN newsArray :
    (scoreFails(newsArray[p]) \/ languageFails(newsArray[p]))
      => Cardinality(callsFor(newsArray[p])) = 0

\* a returned batch with a rejected item of long content, next to an item
\* that was summarized
C3_Witness ==
  /\ pc = "returned"
  /\ llmCalls # <<>>
  /\ \E k \in DOMAIN result.rejectedNews :
       Len(result.rejectedNews[k].news.content) > ContentLengthTrigger

C5_SummaryAbove200 ==
  \A n \in Processed :
    (accepted(n) /\ Len(n.content) > DocumentedSummaryTrigger)
      => callsFor(n) # {}

C7_AcceptedInv ==
  \A n \in Processed :
    accepted(n) => (approvedFor(n) # {} /\ rejectedFor(n) = {})

C7_AcceptedStep ==
  (pc = "summaryReturned") =>
    /\ pc' = "loop"
    /\ rejectedNews' = rejectedNews
    /\ Len(approvedNews') = Len(approvedNews) + 1
    /\ approvedNews'[Len(approvedNews')].title = current.title
    /\ ~summaryResult.success => approvedNews'[Len(approvedNews')] = current

C7_SummaryFailureKeepsApproved ==
  [][C7_AcceptedInv /\ C7_AcceptedInv' /\ C7_AcceptedStep]_vars

\* a returned batch with an approved item that still has its long content:
\* its summary failed
C7_Witness ==
  /\ pc = "returned"
  /\ \E k \in DOMAIN result.approvedNews :
       /\ Len(result.approvedNews[k].content) > ContentLengthTrigger
       /\ \E c \in DOMAIN llmCalls :
            llmCalls[c].title = result.approvedNews[k].title

\* C8: approvedNews and rejectedNews each list their items in the order of
\* the input.
C8_InputOrderKept ==
  /\ \A j, k \in DOMAIN approvedNews :
       j < k => position(approvedNews[j].title) < position(approvedNews[k].title)
  /\ \A j, k \in DOMAIN rejectedNews :
       j < k => position(rejectedNews[j].news.title)
                  < position(rejectedNews[k].news.title)

\* a returned batch of two approved items, the first after two generation
\* calls and the second after none
C8_Witness ==
  /\ pc = "returned"
  /\ Len(result.approvedNews) = 2
  /\ \E c \in DOMAIN llmCalls :
       llmCalls[c].kind = "shorter" /\ llmCalls[c].title = newsArray[1].title
  /\ callsFor(newsArray[2]) = {}

\* C9: the returned report has totalProcessed = totalApproved + totalRejected
\* = len(approvedNews) + len(rejectedNews) = len(input), and every input item
\* is in exactly one of the two lists.
C9_TotalsAddUp ==
  pc = "returned" =>
    /\ result.totalProcessed = result.totalApproved + result.totalRejected
    /\ result.totalApproved = Len(result.approvedNews)
    /\ result.totalRejected = Len(result.rejectedNews)
    /\ result.totalProcessed = Len(newsArray)
    /\ \A p \in DOMAIN newsArray :
         Cardinality({ k \in DOMAIN result.approvedNews :
                         result.approvedNews[k].title = newsArray[p].title })
         + Cardinality({ k \in DOMAIN result.rejectedNews :
                         result.rejectedNews[k].news.title = newsArray[p].title })
         = 1

\* a returned report with one approved and one rejected item
C9_Witness ==
  /\ pc = "returned"
  /\ result.totalApproved = 1
  /\ result.totalRejected = 1

\* C10: when the first generateContent call has thrown, the summary use case
\* has returned success = false, an empty summary and the thrown message as
\* error, and has made no corrective call.
C10_FirstFailureResult ==
  ("kind" \in DOMAIN llmResponse
     /\ llmResponse.kind = "summary" /\ ~llmResponse.ok) =>
    /\ pc = "summaryReturned"
    /\ summaryResult.success = FALSE
    /\ summaryResult.summary = <<>>
    /\ "error" \in DOMAIN summaryResult
    /\ summaryResult.error = llmResponse.message
    /\ Cardinality(callsFor(current)) = 1

\* the summary use case has returned a failure
C10_Witness ==
  /\ pc = "summaryReturned"
  /\ summaryResult.success = FALSE
  /\ "kind" \in DOMAIN llmResponse
  /\ ~llmResponse.ok

\* C11: when the first generateContent call has answered and its output
\* without leading and trailing whitespace is at most maxLength long (exactly
\* maxLength included), the summary use case returns success with exactly
\* that text and has made one call for the item.
C11_ShortFirstAnswerAccepted ==
  \A m \in MaxLengths :
    (answered("summary", TRUE) /\ Len(stripped(llmResponse.text)) <= m) =>
      /\ pc = "summaryReturned"
      /\ summaryResult.success
      /\ summaryResult.summary = stripped(llmResponse.text)
      /\ Cardinality(callsFor(current)) = 1

\* a first answer padded with whitespace whose text is exactly maxLength long
C11_Witness ==
  /\ pc = "summaryReturned"
  /\ answered("summary", TRUE)
  /\ \E m \in MaxLengths : Len(summaryResult.summary) = m
  /\ Len(llmResponse.text) > Len(summaryResult.summary)
  /\ Cardinality(callsFor(current)) = 1

\* C12: an item gets at most two generateContent calls, the summary call and
\* then at most one corrective call right after it; the corrective call is in
\* flight only after the first call answered with a text longer than
\* maxLength, and asks to shorten that text; when the corrective answer is
\* too long as well, the use case returns a summary cut with "..." and the
\* item still has two calls.
C12_OneCorrectiveRetry ==
  /\ \A p \in DOMAIN newsArray :
       LET calls == callsFor(newsArray[p]) IN
       /\ Cardinality(calls) <= 2
       /\ \A c \in calls :
            IF \A d \in calls : c <= d
            THEN llmCalls[c].kind = "summary"
            ELSE /\ llmCalls[c].kind = "shorter"
                 /\ c - 1 \in calls
                 /\ jsGreater(Len(llmCalls[c].content), env.SUMMARY_MAX_LENGTH)
  /\ pc = "correctiveCall" =>
       /\ answered("summary", TRUE)
       /\ \E m \in MaxLengths : Len(stripped(llmResponse.text)) > m
       /\ promptInFlight.kind = "shorter"
       /\ promptInFlight.content = stripped(llmResponse.text)
       /\ Cardinality(callsFor(current)) = 2
  /\ \A m \in MaxLengths :
       (pc = "summaryReturned" /\ answered("shorter", TRUE)
          /\ Len(stripped(llmResponse.text)) > m) =>
         /\ summaryResult.success
         /\ endsWithEllipsis(summaryResult.summary)
         /\ summaryResult.summary # stripped(llmResponse.text)
         /\ Cardinality(callsFor(current)) = 2

\* the second item of a batch, after the first was summarized too: its first
\* and its corrective answer were both too long, and it has two calls
C12_Witness ==
  /\ pc = "summaryReturned"
  /\ answered("shorter", TRUE)
  /\ \E m \in MaxLengths :
       Len(trimmedSummary) > m /\ Len(stripped(llmResponse.text)) > m
  /\ idx = 1
  /\ callsFor(newsArray[1]) # {}
  /\ Cardinality(callsFor(current)) = 2

\* C13: when the first and the corrective answers are both longer than
\* maxLength after trimming, the returned summary is exactly maxLength long,
\* ends with "...", and its first maxLength-3 characters are those of the
\* first answer.
C13_TruncationLaw ==
  \A m \in MaxLengths :
    (pc = "summaryReturned" /\ answered("shorter", TRUE)
       /\ Len(trimmedSummary) > m /\ Len(stripped(llmResponse.text)) > m) =>
      /\ Len(summaryResult.summary) = m
      /\ endsWithEllipsis(summaryResult.summary)
      /\ firstChars(summaryResult.summary, m - 3) = firstChars(trimmedSummary, m - 3)

\* C14: when the first answer was too long and the corrective call threw,
\* the use case returns success without an error, and the summary is the
\* first answer cut to maxLength-3 characters followed by "...".
C14_CorrectiveFailureDegrades ==
  \A m \in MaxLengths :
    (pc = "summaryReturned" /\ answered("shorter", FALSE)) =>
      /\ summaryResult.success
      /\ "error" \notin DOMAIN summaryResult
      /\ Len(trimmedSummary) > m
      /\ summaryResult.summary = firstChars(trimmedSummary, m - 3) \o Ellipsis

\* the corrective call has thrown and the summary keeps characters of the
\* first answer
C14_Witness ==
  /\ pc = "summaryReturned"
  /\ answered("shorter", FALSE)
  /\ summaryResult.success
  /\ Len(summaryResult.summary) > 3

\* C15: every successful result of the summary use case carries a summary
\* that is at most maxLength long, whatever maxLength is configured.
C15_SummaryWithinMaxLength ==
  \A m \in MaxLengths :
    (pc = "summaryReturned" /\ summaryResult.success) =>
      Len(summaryResult.summary) <= m

\* C16: with no SUMMARY_MAX_LENGTH in the environment the maximum length is
\* 180: every prompt carries 180, a first answer longer than 180 characters
\* brings the corrective call, and a successful summary is at most 180 long.
C16_DefaultMaxLength ==
  processEnv.SUMMARY_MAX_LENGTH = Undefined =>
    /\ \A c \in DOMAIN llmCalls :
         llmCalls[c].maxLength = Num(DocumentedSummaryMaxLength)
    /\ (answered("summary", TRUE)
          /\ Len(stripped(llmResponse.text)) > DocumentedSummaryMaxLength)
         => pc = "correctiveCall"
    /\ (pc = "summaryReturned" /\ summaryResult.success)
         => Len(summaryResult.summary) <= DocumentedSummaryMaxLength

\* C17: with a deterministic generation capability, the second invocation of
\* execute on the same input returns the report the first invocation
\* returned: same approved items in the same order with the same content,
\* same rejected items with the same reasons, same counts.
C17_SecondRunSameReport ==
  (run = 2 /\ pc = "returned") => result = firstReport

\* a second invocation has returned a report with a rejected item and an
\* approved item whose content is a generated summary
C17_Witness ==
  /\ run = 2 /\ pc = "returned"
  /\ result.totalRejected = 1
  /\ \E k \in DOMAIN result.approvedNews :
       result.approvedNews[k] \notin Range(newsArray)
  /\ Len(llmCalls) >= 4

\* the answers the capability has given to the prompts made for item n
ownAnswers(n) == { a \in llmMemo : a.prompt.title = n.title }

\* what becomes of item n, from the item, the configuration and the answers
\* to its own prompts alone
itemOutcome(n, e, answers) ==
  LET reasons == evaluateNews(n, e)
      first == (CHOOSE a \in answers : a.prompt.kind = "summary").response
      second == (CHOOSE a \in answers : a.prompt.kind = "shorter").response
      draft == stripped(first.text)
      m == e.SUMMARY_MAX_LENGTH[1]
      cut == firstChars(draft, m - 3) \o Ellipsis
  IN IF reasons # <<>>
     THEN [approved |-> FALSE, news |-> n, reasons |-> reasons]
     ELSE [approved |-> TRUE, reasons |-> <<>>, news |->
       IF Len(n.content) <= ContentLengthTrigger \/ ~first.ok
       THEN n
       ELSE IF e.SUMMARY_MAX_LENGTH = Undefined \/ Len(draft) <= m
       THEN [n EXCEPT !.content = draft]
       ELSE IF second.ok /\ Len(stripped(second.text)) <= m
       THEN [n EXCEPT !.content = stripped(second.text)]
       ELSE [n EXCEPT !.content = cut]]

\* C18: the entry of every finished item in the two lists is the outcome
\* computed from that item, the configuration and the answers to that item's
\* own prompts, whatever the other items are and however their calls ended;
\* and execute returns only when every item is finished.
C18_ItemsIndependent ==
  /\ \A p \in 1..idx :
       LET n == newsArray[p]
           outcome == itemOutcome(n, env, ownAnswers(n))
       IN IF outcome.approved
          THEN /\ rejectedFor(n) = {}
               /\ Cardinality(approvedFor(n)) = 1
               /\ \A k \in approvedFor(n) : approvedNews[k] = outcome.news
          ELSE /\ approvedFor(n) = {}
               /\ Cardinality(rejectedFor(n)) = 1
               /\ \A k \in rejectedFor(n) :
                    rejectedNews[k] = [news |-> n, reasons |-> outcome.reasons]
  /\ pc = "returned" => idx = Len(newsArray)

\* the call for the first item failed, and the second item was summarized
\* all the same
C18_Witness ==
  /\ pc = "returned" /\ Len(newsArray) = 2
  /\ \E a \in ownAnswers(newsArray[1]) : ~a.response.ok
  /\ approvedNews[1] = newsArray[1]
  /\ \E a \in ownAnswers(newsArray[2]) : a.response.ok
  /\ Len(approvedNews) = 2
  /\ approvedNews[2].content # newsArray[2].content

\* C19: a run of execute on a finite batch eventually returns a report, also
\* when a generateContent call never answers.
C19_BatchTerminates == <>(pc = "returned")

\* C20: at most one generateContent call is in flight, and one is in flight
\* exactly while the summary use case awaits it; the calls are made in the
\* order of the items, so a call for a later item starts after every call of
\* an earlier item has settled; a corrective call comes right after the
\* summary call of the same item, once that call has settled.
C20_CallsSequential ==
  /\ Len(llmCalls) - llmSettled \in {0, 1}
  /\ (Len(llmCalls) - llmSettled = 1) <=> (pc \in {"firstCall", "correctiveCall"})
  /\ \A c, d \in DOMAIN llmCalls :
       c < d => position(llmCalls[c].title) <= position(llmCalls[d].title)
  /\ \A c \in DOMAIN llmCalls :
       llmCalls[c].kind = "shorter" =>
         /\ c > 1
         /\ llmCalls[c - 1].kind = "summary"
         /\ llmCalls[c - 1].title = llmCalls[c].title
         /\ llmSettled >= c - 1

\* the corrective call of the second item is in flight, after the calls of
\* the first item have settled
C20_Witness ==
  /\ pc = "correctiveCall"
  /\ idx = 1
  /\ Cardinality(callsFor(newsArray[1])) = 2
  /\ Cardinality(callsFor(newsArray[2])) = 2
  /\ llmSettled = 3

\* C27: every approved item has non-empty content (every input item has
\* non-empty content), whatever text the generation capability answers.
C27_ApprovedContentNonEmpty ==
  \A k \in DOMAIN approvedNews : Len(approvedNews[k].content) > 0

\* C28: no step of execute changes the input array or a field of an input
\* item, and every entry of rejectedNews carries its input item with all
\* fields as they are in the input.
C28_InputUntouched ==
  [][ /\ newsArray' = newsArray
      /\ \A k \in DOMAIN rejectedNews' :
           rejectedNews'[k].news \in Range(newsArray) ]_vars

\* execute has returned a report in which the first item was replaced by a
\* new item with the summary and the second was rejected, and the input
\* still has the long content
C28_Witness ==
  /\ pc = "returned" /\ Len(newsArray) = 2
  /\ Len(result.approvedNews) = 1 /\ Len(result.rejectedNews) = 1
  /\ result.approvedNews[1].title = newsArray[1].title
  /\ result.approvedNews[1].content # newsArray[1].content
  /\ Len(newsArray[1].content) > ContentLengthTrigger
  /\ result.rejectedNews[1].news = newsArray[2]

\* the valid and the invalid items of the news array of the source file
validItems ==
  { p \in DOMAIN jsonFile.news : validateNewsItem(newsOf(jsonFile)[p]).ok }
invalidItems == DOMAIN jsonFile.news \ validItems

\* the valid items among the first n, validated, in file order
RECURSIVE validPrefix(_)
validPrefix(n) ==
  IF n = 0 THEN <<>>
  ELSE IF n \in validItems
       THEN Append(validPrefix(n - 1), validateNewsItem(newsOf(jsonFile)[n]).news)
       ELSE validPrefix(n - 1)

\* C30: a file whose root has a news array is rejected for too many invalid
\* items exactly when at least one item is invalid and the invalid items are
\* at least half of the array; otherwise the loader returns the valid items
\* in file order, so an array without invalid items, the empty one included,
\* is loaded.
C30_HalfInvalidRejects ==
  (extracted # NoResult /\ jsonFile.root = "object") =>
    IF /\ Cardinality(invalidItems) >= 1
       /\ 2 * Cardinality(invalidItems) >= Len(jsonFile.news)
    THEN extracted.threw /\ extracted.name = "InvalidDataFormatError"
    ELSE ~extracted.threw /\ extracted.news = validPrefix(Len(jsonFile.news))

\* totalLoaded of the result of either load use case
totalLoadedOf(r) ==
  IF "metadata" \in DOMAIN r THEN r.metadata.totalLoaded ELSE r.totalLoaded

\* C26: execute of the load use case ends by returning; loadNews is called at
\* most once, and not at all unless isSourceAvailable answered true; when the
\* source is unavailable or a repository call threw, the result has no news
\* and totalLoaded 0; otherwise it has the news loadNews returned, and
\* totalLoaded is their number.
C26_LoadNeverThrowsNorRetries ==
  /\ loadNewsCalls <= 1
  /\ isAvailable # "true" => loadNewsCalls = 0
  /\ loadPc \in {"idle", "isSourceAvailable", "getSourceInfo", "loadNews",
                 "returned"}
  /\ loadPc = "returned" =>
       /\ loadResult # NoResult
       /\ totalLoadedOf(loadResult) = Len(loadResult.news)
       /\ IF isAvailable = "true" /\ ~loaded.threw
          THEN loadNewsCalls = 1 /\ loadResult.news = loaded.news
          ELSE loadResult.news = <<>> /\ totalLoadedOf(loadResult) = 0

\* LoadNewsFromSourceUseCase.execute has returned the empty result without
\* a call of loadNews, the source being unavailable
C26_Witness ==
  /\ useCase = "LoadNewsFromSourceUseCase"
  /\ loadPc = "returned"
  /\ isAvailable = "false"
  /\ loadNewsCalls = 0
  /\ loadResult = [news |-> <<>>, totalLoaded |-> 0]

\* the insertNews call of client c has ended
ended(c) == txn[c].outcome # "pending"

\* the committed rows that belong to the news of the insertNews call of c
newsRowsOf(c) ==
  { row \in newsTable : txn[c].newsId # 0 /\ row.id = txn[c].newsId }
linksOf(c) ==
  { l \in newsCategories : txn[c].newsId # 0 /\ l.news_id = txn[c].newsId }

\* the committed rows of categories with this name
categoryRows(name) == { row \in categoriesTable : row.name = name }

\* C23: an insertNews call never ends by throwing; every failure ends it
\* with null.
C23_InsertNewsNeverThrows ==
  \A c \in DOMAIN txn : txn[c].outcome # "threw"

\* C24: an insertNews call that returned a News has committed its news row
\* and an association for each of its categories; a call that returned null
\* has issued ROLLBACK and has committed neither the news row nor any
\* association; and while a call runs, nothing of it is committed.
C24_InsertNewsAtomic ==
  \A c \in DOMAIN txn :
    LET t == txn[c] IN
    /\ t.outcome = "returned" =>
         /\ t.value = t.newsData
         /\ \E row \in newsRowsOf(c) :
              row.title = t.newsData.title /\ row.content = t.newsData.content
         /\ \A p \in DOMAIN t.newsData.categories :
              \E cat \in categoryRows(t.newsData.categories[p]) :
                [news_id |-> t.newsId, category_id |-> cat.id] \in linksOf(c)
    /\ t.outcome = "null" =>
         t.rollback /\ newsRowsOf(c) = {} /\ linksOf(c) = {}
    /\ t.outcome = "pending" => newsRowsOf(c) = {} /\ linksOf(c) = {}

\* one call failed while it associated its second category and returned
\* null, the other call returned its News with two categories
C24_Witness ==
  \E c, d \in DOMAIN txn :
    /\ txn[c].outcome = "null" /\ txn[c].k = 2 /\ txn[c].newsId # 0
    /\ txn[c].categoryId # 0
    /\ txn[d].outcome = "returned" /\ Cardinality(linksOf(d)) = 2

\* C25: the categories table holds at most one row per name, the names
\* compared exactly; a news row is associated with exactly the rows named as
\* its categories; insertCategory returns the row of the table with the name
\* it was given; and no insertNews call loses its news item to a second
\* creation of a category name.
C25_CategoryIdempotent ==
  /\ \A a, b \in categoriesTable : a.name = b.name => a = b
  /\ \A c \in DOMAIN txn :
       txn[c].outcome = "returned" =>
         linksOf(c) =
           { [news_id |-> txn[c].newsId, category_id |-> cat.id] :
               cat \in UNION { categoryRows(txn[c].newsData.categories[p]) :
                                 p \in DOMAIN txn[c].newsData.categories } }
  /\ (categoryReturned # NoResult /\ categoryReturned # Null) =>
       categoryReturned \in categoriesTable
  /\ \A c \in DOMAIN txn : txn[c].failure # "unique_violation"

\* the item of the source file with this title
loadedItem(t) == CHOOSE n \in Range(appLoad.news) : n.title = t

\* C21: every row the application has stored holds the original content of
\* its item and, when a summary was generated for the item, the summary in
\* a field of its own.
C21_OriginalContentAndSummaryStored ==
  \A row \in newsTable :
    /\ row.content = loadedItem(row.title).content
    /\ (\E k \in DOMAIN insertCalls :
          /\ insertCalls[k].title = row.title
          /\ insertCalls[k].content # loadedItem(row.title).content)
         => "summary" \in DOMAIN row

\* C22: the items insertNews has been called with are the first items of
\* approvedNews of the curation, in order, each once, whatever the earlier
\* calls returned; none of them fails the curation criteria; when run has
\* returned after the inserts, every approved item was handed over, and
\* with no approved item there was no call.
C22_InsertsFollowApproved ==
  /\ insertCalls # <<>> =>
       /\ appCuration # NoResult
       /\ insertCalls = SubSeq(appCuration.approvedNews, 1, insertIdx)
  /\ \A k \in DOMAIN insertCalls : accepted(loadedItem(insertCalls[k].title))
  /\ Len(insertResults) = Len(insertCalls)
  /\ (appPc = "returned" /\ poolEnds > 0) =>
       (appCuration # NoResult /\ insertCalls = appCuration.approvedNews)

\* C29: when run has returned (the connection test had succeeded), the
\* pool has been closed exactly once.
C29_PoolClosedOnReturn ==
  appPc = "returned" => poolEnds = 1

====
